---------------------------- MODULE Spec2Model ----------------------------
(* Model of scripts/logs.js: the access-log transfer script.              *)
(* A string is a sequence of one-character strings.  A JavaScript value   *)
(* is a record [t, v]: t is the type tag, v a sequence holding the value. *)
EXTENDS Integers, Sequences, FiniteSets, TLC

VARIABLES pc, doTruncate, doInsert, source, source0, backupFile,
          pos, successful, failed, entries, failedEntries,
          pool, start, calls, store, sent, console, inflight, steps,
          error, exitCode

vars == <<pc, doTruncate, doInsert, source, source0, backupFile,
          pos, successful, failed, entries, failedEntries,
          pool, start, calls, store, sent, console, inflight, steps,
          error, exitCode>>

(* ---------------------------- bounds ---------------------------------- *)
MaxLines == 4
MaxRejected == 6
(* Rows per insert call: the 20000 of the source scaled down, so that     *)
(* sources of MaxLines lines fill several chunks.                         *)
ChunkBound == 2

(* ------------------------ program constants --------------------------- *)
MAX_PATH_QUERY_LENGTH == 255
MAX_COUNTRY_LENGTH == 8
CHUNK_SIZE == ChunkBound
MAX_MESSAGE_LENGTH == 2000
MAX_DISPLAYED == 5

Min(a, b) == IF a < b THEN a ELSE b

(* ------------------------- JavaScript values -------------------------- *)
Str(s) == [t |-> "string", v |-> s]
Num(n) == [t |-> "number", v |-> <<n>>]
NaN == [t |-> "number", v |-> <<>>]
DateOf(s) == [t |-> "date", v |-> s]
Bool(b) == [t |-> "boolean", v |-> <<b>>]
Null == [t |-> "null", v |-> <<>>]
Undefined == [t |-> "undefined", v |-> <<>>]

IsString(x) == x.t = "string"

Get(object, key) == IF key \in DOMAIN object THEN object[key] ELSE Undefined

(* {...object, key: value} *)
With(object, key, value) ==
    [k \in DOMAIN object \cup {key} |-> IF k = key THEN value ELSE object[k]]

(* String.prototype.slice(0, n) *)
Slice(s, n) == SubSeq(s, 1, Min(n, Len(s)))

LowerCase == <<"a","b","c","d","e","f","g","h","i","j","k","l","m",
               "n","o","p","q","r","s","t","u","v","w","x","y","z">>
UpperCase == <<"A","B","C","D","E","F","G","H","I","J","K","L","M",
               "N","O","P","Q","R","S","T","U","V","W","X","Y","Z">>

ToUpperChar(c) ==
    IF \E i \in 1..26 : LowerCase[i] = c
    THEN UpperCase[CHOOSE i \in 1..26 : LowerCase[i] = c]
    ELSE c

(* String.prototype.toUpperCase *)
ToUpperCase(s) == [i \in 1..Len(s) |-> ToUpperChar(s[i])]

Whitespace == {" ", "\t"}

(* String.prototype.trim() yields the empty string *)
TrimIsEmpty(s) == \A i \in 1..Len(s) : s[i] \in Whitespace

HexDigits == {"0","1","2","3","4","5","6","7","8","9",
              "a","b","c","d","e","f","A","B","C","D","E","F"}
Digits == <<"0","1","2","3","4","5","6","7","8","9">>
IsDigit(c) == \E i \in 1..10 : Digits[i] = c
DigitValue(c) == (CHOOSE i \in 1..10 : Digits[i] = c) - 1


HexLower == <<"0","1","2","3","4","5","6","7","8","9","a","b","c","d","e","f">>
HexUpper == <<"0","1","2","3","4","5","6","7","8","9","A","B","C","D","E","F">>
HexValue(c) ==
    IF \E i \in 1..16 : HexLower[i] = c
    THEN (CHOOSE i \in 1..16 : HexLower[i] = c) - 1
    ELSE (CHOOSE i \in 1..16 : HexUpper[i] = c) - 1

(* The printable ASCII characters, code 32 at index 1; "\\g" is the grave *)
(* accent, code 96.                                                       *)
Ascii == <<
    " ","!","\"","#","$","%","&","'","(",")","*","+",
    ",","-",".","/","0","1","2","3","4","5","6","7",
    "8","9",":",";","<","=",">","?","@","A","B","C",
    "D","E","F","G","H","I","J","K","L","M","N","O",
    "P","Q","R","S","T","U","V","W","X","Y","Z","[",
    "\\","]","^","_","\\g","a","b","c","d","e","f","g",
    "h","i","j","k","l","m","n","o","p","q","r","s",
    "t","u","v","w","x","y","z","{","|","}","~">>

(* Characters decodeURI leaves escaped: ; / ? : @ & = + $ , #            *)
UriReserved == {59, 47, 63, 58, 64, 38, 61, 43, 36, 44, 35}

Ok(value) == [ok |-> TRUE, value |-> value, error |-> [msg |-> "", value |-> <<>>]]
Throw(msg, value) == [ok |-> FALSE, value |-> Undefined, error |-> [msg |-> msg, value |-> value]]

(* template-literal interpolation of x *)
ToStringJS(x) ==
    IF x.t = "undefined" THEN <<"u","n","d","e","f","i","n","e","d">> ELSE x.v

(* decodeURI on a string.  "\\c" stands for a decoded control character   *)
(* and "\\u" for a decoded two-byte UTF-8 character; longer UTF-8         *)
(* sequences are outside the inputs of this model.                        *)
RECURSIVE DecodeFrom(_, _)
DecodeFrom(s, i) ==
    IF i > Len(s) THEN Ok(<<>>)
    ELSE IF s[i] # "%" THEN
        LET rest == DecodeFrom(s, i + 1)
        IN  IF rest.ok THEN Ok(<<s[i]>> \o rest.value) ELSE rest
    ELSE IF i + 2 > Len(s) \/ s[i+1] \notin HexDigits \/ s[i+2] \notin HexDigits
        THEN Throw("URI malformed", <<>>)
    ELSE LET code == 16 * HexValue(s[i+1]) + HexValue(s[i+2])
         IN  IF code < 128 THEN
                 LET rest == DecodeFrom(s, i + 3)
                     out == IF code \in UriReserved THEN SubSeq(s, i, i + 2)
                            ELSE IF code < 32 \/ code = 127 THEN <<"\\c">>
                            ELSE <<Ascii[code - 31]>>
                 IN  IF rest.ok THEN Ok(out \o rest.value) ELSE rest
             ELSE IF code >= 194 /\ code <= 223 /\ i + 5 <= Len(s)
                     /\ s[i+3] = "%" /\ s[i+4] \in HexDigits /\ s[i+5] \in HexDigits
                     /\ 16 * HexValue(s[i+4]) + HexValue(s[i+5]) \in 128..191 THEN
                 LET rest == DecodeFrom(s, i + 6)
                 IN  IF rest.ok THEN Ok(<<"\\u">> \o rest.value) ELSE rest
             ELSE Throw("URI malformed", <<>>)

DecodeURI(s) == DecodeFrom(s, 1)

RECURSIVE DigitsValue(_, _)
DigitsValue(s, acc) ==
    IF s = <<>> THEN acc ELSE DigitsValue(Tail(s), 10 * acc + DigitValue(Head(s)))

RECURSIVE TrimLeft(_)
TrimLeft(s) == IF s # <<>> /\ Head(s) \in Whitespace THEN TrimLeft(Tail(s)) ELSE s

RECURSIVE TrimRight(_)
TrimRight(s) ==
    IF s # <<>> /\ s[Len(s)] \in Whitespace THEN TrimRight(SubSeq(s, 1, Len(s) - 1)) ELSE s

(* Number(x) for undefined and for strings holding an optionally signed   *)
(* decimal integer; every other string of this model's inputs is NaN.     *)
NumberJS(x) ==
    IF x.t = "number" THEN x
    ELSE IF x.t # "string" THEN NaN
    ELSE LET s == TrimRight(TrimLeft(x.v))
             body == IF s # <<>> /\ Head(s) \in {"-", "+"} THEN Tail(s) ELSE s
         IN  IF s = <<>> THEN Num(0)
             ELSE IF body = <<>> \/ \E i \in 1..Len(body) : ~IsDigit(body[i]) THEN NaN
             ELSE IF Head(s) = "-" THEN Num(0 - DigitsValue(body, 0))
             ELSE Num(DigitsValue(body, 0))

IsNaN(x) == x = NaN

(* --------------------------- library oracles -------------------------- *)
(* node:net isIP, Date parsing, isbot and ua-parser-js are libraries: each *)
(* is a table over the sample strings the inputs are drawn from.          *)
IPv4Sample == <<"1",".","2",".","3",".","4">>
IPv6Sample == <<":",":","1">>
ValidIPs == {IPv4Sample, IPv6Sample}

(* isIP(x) # 0; isIP of a non-string is 0 *)
IsIP(x) == IsString(x) /\ x.v \in ValidIPs

TimeSample == <<"2","0","2","4","-","0","1","-","0","2">>
TimeSample2 == <<"2","0","2","4","-","0","1","-","0","3">>

(* new Date(x): epoch seconds, or Invalid Date *)
NewDate(x) ==
    IF IsString(x) /\ x.v = TimeSample THEN DateOf(<<1704153600>>)
    ELSE IF IsString(x) /\ x.v = TimeSample2 THEN DateOf(<<1704240000>>)
    ELSE DateOf(<<>>)

IsInvalidDate(d) == d.v = <<>>

BrowserAgent == <<"F","i","r","e","f","o","x","/","1","1","5",".","0">>
BotAgent == <<"G","o","o","g","l","e","b","o","t","/","2",".","1">>

(* isbot(userAgent) *)
IsBot(ua) == ua = BotAgent

(* new UAParser(userAgent).getResult(): <<>> stands for undefined *)
UAResult(ua) ==
    IF ua = BrowserAgent
    THEN [browser |-> <<"F","i","r","e","f","o","x">>, osName |-> <<>>, osVersion |-> <<>>, deviceType |-> <<>>]
    ELSE [browser |-> <<>>, osName |-> <<>>, osVersion |-> <<>>, deviceType |-> <<>>]

(* -------------------------- field validators -------------------------- *)
VALID_HTTP_METHODS ==
    {<<"G","E","T">>,
     <<"H","E","A","D">>,
     <<"P","O","S","T">>,
     <<"P","U","T">>,
     <<"D","E","L","E","T","E">>,
     <<"C","O","N","N","E","C","T">>,
     <<"O","P","T","I","O","N","S">>,
     <<"T","R","A","C","E">>,
     <<"P","A","T","C","H">>,
     <<"-">>}

VALID_HTTP_STATUSES ==
    {100, 101, 102, 103, 200, 201, 202, 203, 204, 206, 207, 208, 226, 300, 301,
     302, 303, 304, 307, 308, 400, 401, 402, 403, 404, 405, 406, 407, 408, 409,
     410, 411, 412, 413, 414, 415, 416, 417, 418, 421, 422, 423, 424, 425, 426,
     428, 429, 431, 444, 450, 451, 497, 498, 499, 500, 501, 502, 503, 504, 505,
     506, 507, 508, 510, 511}

Fields == <<"host", "user", "time", "method", "path", "query", "status",
            "responseSize", "processTime", "referer", "userAgent", "country">>

(* The regular expression of fixEscaping on one string: the unit "\\x"    *)
(* is a backslash followed by x; followed by two hex digits it becomes %. *)
FixString(s) ==
    [i \in 1..Len(s) |->
        IF s[i] = "\\x" /\ i + 2 <= Len(s)
           /\ s[i+1] \in HexDigits /\ s[i+2] \in HexDigits
        THEN "%" ELSE s[i]]

FixValue(x) == IF IsString(x) THEN Str(FixString(x.v)) ELSE x

fixEscaping(line) ==
    Ok([line EXCEPT !.doc.obj = [k \in DOMAIN line.doc.obj |-> FixValue(line.doc.obj[k])]])

(* A string value JSON.parse rejects: it still holds a \x escape. *)
HasBadEscape(x) == IsString(x) /\ \E i \in 1..Len(x.v) : x.v[i] = "\\x"

gracefulParse(json) ==
    IF json.doc.kind \in {"invalid", "none"}
       \/ \E k \in DOMAIN json.doc.obj : HasBadEscape(json.doc.obj[k])
    THEN Throw("Invalid JSON.", <<>>)
    ELSE IF json.doc.kind = "null" THEN Ok(Null)
    ELSE Ok(json.doc.obj)

(* Object.entries visits the keys in the order of Fields. *)
NonStringKeys(object) ==
    {i \in 1..Len(Fields) : Fields[i] \in DOMAIN object /\ ~IsString(object[Fields[i]])}

KeyName(key) ==
    CASE key = "host" -> <<"h","o","s","t">>
      [] key = "user" -> <<"u","s","e","r">>
      [] key = "time" -> <<"t","i","m","e">>
      [] key = "method" -> <<"m","e","t","h","o","d">>
      [] key = "path" -> <<"p","a","t","h">>
      [] key = "query" -> <<"q","u","e","r","y">>
      [] key = "status" -> <<"s","t","a","t","u","s">>
      [] key = "responseSize" -> <<"r","e","s","p","o","n","s","e","S","i","z","e">>
      [] key = "processTime" -> <<"p","r","o","c","e","s","s","T","i","m","e">>
      [] key = "referer" -> <<"r","e","f","e","r","e","r">>
      [] key = "userAgent" -> <<"u","s","e","r","A","g","e","n","t">>
      [] OTHER -> <<"c","o","u","n","t","r","y">>

checkFieldsAreStrings(object) ==
    IF object = Null THEN Throw("Cannot convert undefined or null to object", <<>>)
    ELSE IF NonStringKeys(object) # {}
    THEN LET first == CHOOSE i \in NonStringKeys(object) :
                          \A j \in NonStringKeys(object) : i <= j
         IN  Throw("Field '' is not a string.", KeyName(Fields[first]))
    ELSE Ok(object)

checkValidIP(object) ==
    IF ~IsIP(Get(object, "host"))
    THEN Throw("Invalid IP address: ", ToStringJS(Get(object, "host")))
    ELSE Ok(object)

checkValidTime(object) ==
    LET time == NewDate(Get(object, "time"))
    IN  IF IsInvalidDate(time)
        THEN Throw("Invalid time: ", ToStringJS(Get(object, "time")))
        ELSE Ok(With(object, "time", time))

(* The method kept as it is when it is the "-" of Apache. *)
checkValidMethod_keepDash(object) ==
    IF ~IsString(Get(object, "method"))
    THEN Throw("Cannot read properties of undefined (reading 'toUpperCase')", <<>>)
    ELSE LET method == ToUpperCase(object["method"].v)
         IN  IF method \notin VALID_HTTP_METHODS
             THEN Throw("Invalid HTTP method: ", method)
             ELSE Ok(With(object, "method", Str(method)))

checkValidMethod(object) ==
    IF ~IsString(Get(object, "method"))
    THEN Throw("Cannot read properties of undefined (reading 'toUpperCase')", <<>>)
    ELSE LET method == ToUpperCase(object["method"].v)
         IN  IF method \notin VALID_HTTP_METHODS
             THEN Throw("Invalid HTTP method: ", method)
             ELSE Ok(With(object, "method",
                          IF method = <<"-">> THEN Null ELSE Str(method)))

checkPathQuery(object) ==
    LET decodedPath == DecodeURI(ToStringJS(Get(object, "path")))
        decodedQuery == DecodeURI(ToStringJS(Get(object, "query")))
    IN  IF ~decodedPath.ok THEN decodedPath
        ELSE IF ~decodedQuery.ok THEN decodedQuery
        ELSE LET path == Slice(decodedPath.value, MAX_PATH_QUERY_LENGTH)
                 query == Slice(decodedQuery.value, MAX_PATH_QUERY_LENGTH)
             IN  Ok(With(With(object,
                     "path", IF path = <<"-">> THEN Null ELSE Str(path)),
                     "query", IF query = <<>> THEN Null ELSE Str(query)))

checkStatus(object) ==
    LET status == NumberJS(Get(object, "status"))
    IN  IF IsNaN(status) \/ status.v[1] \notin VALID_HTTP_STATUSES
        THEN Throw("Invalid HTTP status: ", ToStringJS(Get(object, "status")))
        ELSE Ok(With(object, "status", status))

checkResponseSize(object) ==
    LET responseSize == NumberJS(Get(object, "responseSize"))
    IN  IF IsNaN(responseSize)
        THEN Throw("Invalid response size: ", ToStringJS(Get(object, "responseSize")))
        ELSE Ok(With(object, "responseSize", responseSize))

checkProcessTime(object) ==
    LET processTime == NumberJS(Get(object, "processTime"))
    IN  IF IsNaN(processTime)
        THEN Throw("Invalid response size: ", ToStringJS(Get(object, "processTime")))
        ELSE Ok(With(object, "processTime", processTime))

trimReferer(object) ==
    IF ~IsString(Get(object, "referer"))
    THEN Throw("Cannot read properties of undefined (reading 'slice')", <<>>)
    ELSE Ok(With(object, "referer",
                 Str(Slice(object["referer"].v, MAX_PATH_QUERY_LENGTH))))

trimUser(object) ==
    IF ~IsString(Get(object, "user"))
    THEN Throw("Cannot read properties of undefined (reading 'slice')", <<>>)
    ELSE LET user == Slice(object["user"].v, MAX_PATH_QUERY_LENGTH)
         IN  Ok(With(object, "user", IF user = <<"-">> THEN Null ELSE Str(user)))

checkCountry(object) ==
    IF ~IsString(Get(object, "country"))
    THEN Throw("Cannot read properties of undefined (reading 'slice')", <<>>)
    ELSE Ok(With(object, "country",
                 IF object["country"].v = <<"-">> THEN Null
                 ELSE Str(ToUpperCase(Slice(object["country"].v, MAX_COUNTRY_LENGTH)))))

StrOrNull(s) == IF s = <<>> THEN Null ELSE Str(s)

Derived(object, bot, browser, deviceType, os, userAgent) ==
    With(With(With(With(With(object, "bot", bot), "browser", browser),
        "deviceType", deviceType), "os", os), "userAgent", userAgent)

decomposeUserAgent(object) ==
    LET raw == Get(object, "userAgent")
    IN  IF raw = Str(<<"-">>) \/ raw = Str(<<>>) \/ raw = Undefined
        THEN Ok(Derived(object, Bool(FALSE), Null, Str(<<"u","n","k","n","o","w","n">>), Null, Null))
        ELSE LET bot == IsBot(raw.v)
                 userAgent == UAResult(raw.v)
                 os == IF userAgent.osName # <<>>
                       THEN IF userAgent.osVersion # <<>>
                            THEN Str(userAgent.osName \o <<" ">> \o userAgent.osVersion)
                            ELSE Str(userAgent.osName)
                       ELSE Null
                 deviceType == IF bot THEN Str(<<"u","n","k","n","o","w","n">>)
                               ELSE IF userAgent.deviceType # <<>>
                                    THEN Str(userAgent.deviceType)
                                    ELSE Str(<<"o","t","h","e","r">>)
             IN  Ok(Derived(object, Bool(bot), StrOrNull(userAgent.browser),
                            deviceType, os,
                            Str(Slice(raw.v, MAX_PATH_QUERY_LENGTH))))

(* The i-th .then of the promise chain of loadEntries. *)
ChainStep(i, value) ==
    CASE i = 1 -> gracefulParse(value)
      [] i = 2 -> checkFieldsAreStrings(value)
      [] i = 3 -> checkValidIP(value)
      [] i = 4 -> checkValidTime(value)
      [] i = 5 -> checkValidMethod(value)
      [] i = 6 -> checkPathQuery(value)
      [] i = 7 -> checkStatus(value)
      [] i = 8 -> checkResponseSize(value)
      [] i = 9 -> checkProcessTime(value)
      [] i = 10 -> trimReferer(value)
      [] i = 11 -> trimUser(value)
      [] i = 12 -> checkCountry(value)
      [] OTHER -> decomposeUserAgent(value)

ChainLength == 13

(* Every validator run whatever the outcome of the ones before it, the     *)
(* last rejection being the one reported.                                  *)
RECURSIVE Chain_settled(_, _)
Chain_settled(result, i) ==
    IF i > ChainLength THEN result
    ELSE LET step == ChainStep(i, result.value)
         IN  Chain_settled([ok |-> result.ok /\ step.ok,
                            value |-> IF step.ok THEN step.value ELSE result.value,
                            error |-> IF step.ok THEN result.error ELSE step.error],
                           i + 1)

(* Each .then runs only on a fulfilled promise; a rejection passes       *)
(* through to the end of the chain.                                       *)
RECURSIVE Chain(_, _)
Chain(result, i) ==
    IF i > ChainLength \/ ~result.ok THEN result
    ELSE Chain(ChainStep(i, result.value), i + 1)

(* The promise chain of loadEntries for one line. *)
Validate(line) == Chain(fixEscaping(line), 1)

(* ------------------------------- lines -------------------------------- *)
(* A line of the source file: ws is its leading whitespace, doc the JSON  *)
(* document after it (kind "none": nothing follows), pad the number of    *)
(* insignificant whitespace characters inside the document.               *)
NoObject == [k \in {} |-> Undefined]

Line(ws, kind, obj, pad) == [ws |-> ws, doc |-> [kind |-> kind, obj |-> obj], pad |-> pad]

Record(host, user, time, method, path, query, status, responseSize, processTime, referer, userAgent, country) ==
    [host |-> Str(host), user |-> Str(user), time |-> Str(time),
     method |-> Str(method), path |-> Str(path), query |-> Str(query),
     status |-> Str(status), responseSize |-> Str(responseSize),
     processTime |-> Str(processTime), referer |-> Str(referer),
     userAgent |-> Str(userAgent), country |-> Str(country)]

LineEmpty == Line(<<>>, "none", NoObject, 0)
LineSpaces == Line(<<" ", "\t">>, "none", NoObject, 0)
LineGood ==
    Line(<<>>, "object",
         Record(IPv4Sample, <<"-">>, TimeSample, <<"g","e","t">>, <<"/","a">>, <<>>,
                <<"2","0","0">>, <<"5">>, <<"1">>, <<"-">>, BrowserAgent, <<"u","s">>), 0)
LineGood2 ==
    Line(<<" ">>, "object",
         Record(IPv6Sample, <<"b","o","b">>, TimeSample2, <<"-">>, <<"/", "\\x", "4", "1">>,
                <<"q","=","1">>, <<"4","0","4">>, <<"0">>, <<"2">>, <<>>, <<"-">>, <<"-">>), 0)
LineBadJson == Line(<<>>, "invalid", NoObject, 0)
(* Padding of the long sample line, which then exceeds one message. *)
LongPad == 1990
LineBadStatus ==
    Line(<<>>, "object",
         Record(IPv4Sample, <<"-">>, TimeSample, <<"G","E","T">>, <<"/">>, <<>>,
                <<"9","9","9">>, <<"5">>, <<"1">>, <<"-">>, BotAgent, <<"d","e">>), LongPad)

Lines == {LineEmpty, LineSpaces, LineGood, LineGood2, LineBadStatus}
RejectedLines == {LineBadJson, LineBadStatus}

(* An object without the member key. *)
Without(object, key) == [k \in DOMAIN object \ {key} |-> object[k]]

(* A line whose status is a JSON number. *)
LineNonString == Line(<<>>, "object", With(LineGood.doc.obj, "status", Num(200)), 0)
(* A line without the method member. *)
LineMissing == Line(<<>>, "object", Without(LineGood.doc.obj, "method"), 0)
(* A line whose path is a lone percent sign, which decodeURI rejects. *)
LineBadUri == Line(<<>>, "object", With(LineGood2.doc.obj, "path", Str(<<"/", "%">>)), 0)

(* Lines of the runs that look at the order of the two sequences. *)
MaxOrder == 3
OrderLines == {LineGood, LineGood2, LineBadJson, LineBadUri, LineBadStatus}

(* Lines of the runs that look at the failures of one line: an accepted   *)
(* line and one line for each kind of failure.                            *)
FailureLines == {LineGood, LineBadJson, LineNonString, LineMissing, LineBadUri,
                 LineBadStatus}

(* A line whose document is the JSON literal null. *)
LineNull == Line(<<>>, "null", NoObject, 0)

(* The record the runs on single fields start from: every member is      *)
(* populated and valid.                                                   *)
ChainBase ==
    Record(IPv4Sample, <<"b","o","b">>, TimeSample, <<"g","e","t">>, <<"/","a">>,
           <<"q","=","1">>, <<"2","0","0">>, <<"5">>, <<"1">>, <<"/","r">>,
           BrowserAgent, <<"u","s">>)

(* One member of a record given another value, or left out. *)
Deviation(field, value) == [field |-> field, missing |-> FALSE, value |-> value]
Missing(field) == [field |-> field, missing |-> TRUE, value |-> Undefined]

Deviations ==
    {Deviation("host", Str(<<"x">>)), Missing("host"),
     Deviation("time", Str(<<"x">>)),
     Deviation("method", Str(<<"-">>)), Deviation("method", Str(<<"f","o","o">>)),
     Missing("method"),
     Deviation("path", Str(<<"-">>)), Deviation("path", Str(<<"%","2","D">>)),
     Deviation("path", Str(<<"%">>)), Deviation("path", Str(<<"\\x","2","D">>)),
     Deviation("query", Str(<<>>)), Deviation("query", Str(<<"-">>)),
     Deviation("status", Str(<<"9","9","9">>)), Deviation("status", Num(200)),
     Deviation("responseSize", Str(<<"x">>)),
     Deviation("processTime", Str(<<"x">>)),
     Deviation("referer", Str(<<"-">>)), Missing("referer"),
     Deviation("user", Str(<<"-">>)),
     Deviation("country", Str(<<"-">>)),
     Deviation("country", Str(<<"a","b","c","d","e","f","g","h","i">>)),
     Deviation("userAgent", Str(<<"-">>)), Deviation("userAgent", Str(<<>>)),
     Deviation("userAgent", Str(BotAgent))}

(* The sets of at most n deviations on different members. *)
MaxDeviations == 2
RECURSIVE DeviationSets(_)
DeviationSets(n) ==
    IF n = 0 THEN {{}}
    ELSE LET smaller == DeviationSets(n - 1)
         IN  smaller \cup
             {S \cup {d} : <<S, d>> \in
                 {<<S, d>> \in smaller \X Deviations : \A c \in S : c.field # d.field}}

(* The record a set of deviations makes of another record. *)
Deviate(object, S) ==
    [k \in DOMAIN object \ {d.field : d \in {c \in S : c.missing}} |->
        IF \E d \in S : d.field = k
        THEN (CHOOSE d \in S : d.field = k).value
        ELSE object[k]]

ChainLines ==
    {LineBadJson, LineNull}
    \cup {Line(<<>>, "object", Deviate(ChainBase, S), 0) : S \in DeviationSets(MaxDeviations)}

(* The test written as !line: only the empty line is skipped. *)
IsBlank_emptyOnly(line) == line.doc.kind = "none" /\ line.ws = <<>>

(* line.trim() is the empty string *)
IsBlank(line) == line.doc.kind = "none" /\ TrimIsEmpty(line.ws)

RECURSIVE DecimalLen(_)
DecimalLen(n) == IF n < 10 THEN 1 ELSE 1 + DecimalLen(n \div 10)

(* Number of characters of a string: the unit "\\x" is two characters. *)
CharLen(s) == Len(s) + Cardinality({i \in 1..Len(s) : s[i] = "\\x"})

ValueLen(x) == IF IsString(x) THEN CharLen(x.v) + 2 ELSE 4

RECURSIVE MembersLen(_, _)
MembersLen(obj, i) ==
    IF i > Len(Fields) THEN 0
    ELSE (IF Fields[i] \in DOMAIN obj
          THEN Len(KeyName(Fields[i])) + 4 + ValueLen(obj[Fields[i]]) ELSE 0)
         + MembersLen(obj, i + 1)

(* Length of the text of a line. *)
LineLen(line) ==
    Len(line.ws) + line.pad
    + (CASE line.doc.kind = "none" -> 0
         [] line.doc.kind = "invalid" -> 1
         [] line.doc.kind = "null" -> 4
         [] OTHER -> 2 + MembersLen(line.doc.obj, 1))

(* ------------------------------ messages ------------------------------ *)
NoError == [msg |-> "", value |-> <<>>]

MsgLen(msg) ==
    CASE msg = "" -> 0
      [] msg = "Unknown error." -> 14
      [] msg = "Invalid JSON." -> 13
      [] msg = "Cannot convert undefined or null to object" -> 42
      [] msg = "Field '' is not a string." -> 25
      [] msg = "Invalid IP address: " -> 20
      [] msg = "Invalid time: " -> 14
      [] msg = "Cannot read properties of undefined (reading 'toUpperCase')" -> 59
      [] msg = "Invalid HTTP method: " -> 21
      [] msg = "URI malformed" -> 13
      [] msg = "Invalid HTTP status: " -> 21
      [] msg = "Invalid response size: " -> 23
      [] msg = "Cannot read properties of undefined (reading 'slice')" -> 53
      [] msg = "copyFile failed" -> 15
      [] msg = "read failed" -> 11
      [] msg = "truncate failed" -> 15
      [] msg = "query failed" -> 12
      [] msg = "pool end failed" -> 15
      [] OTHER -> 0

(* error.message.length *)
ErrorLen(err) == MsgLen(err.msg) + Len(err.value)

(* A message of the script: kind says which template built it. *)
Message(kind, count, err, examples) ==
    [kind |-> kind, count |-> count, error |-> err, examples |-> examples]

ExampleLen(ex) == DecimalLen(ex.index) + 9 + ErrorLen(ex.error) + 16 + LineLen(ex.line) + 3

RECURSIVE ExamplesLen(_)
ExamplesLen(examples) ==
    IF examples = <<>> THEN 0 ELSE ExampleLen(Head(examples)) + ExamplesLen(Tail(examples))

HeadLen(message) ==
    CASE message.kind = "started" -> 21
      [] message.kind = "success" -> DecimalLen(message.count) + 34
      [] message.kind = "failure" -> 21 + ErrorLen(message.error)
      [] OTHER -> DecimalLen(message.count) + 40

(* message.length *)
MessageLen(message) == HeadLen(message) + ExamplesLen(message.examples)

(* message.slice(0, n): the examples that fit whole are kept, cut tells   *)
(* that characters were dropped.                                          *)
Shown(message, n) ==
    {k \in 0..Len(message.examples) :
        HeadLen(message) + ExamplesLen(SubSeq(message.examples, 1, k)) <= n}

SliceMessage(message, n) ==
    [kind |-> message.kind, count |-> message.count, error |-> message.error,
     examples |-> IF Shown(message, n) = {} THEN <<>>
                  ELSE SubSeq(message.examples, 1,
                              CHOOSE k \in Shown(message, n) :
                                  \A j \in Shown(message, n) : j <= k),
     cut |-> MessageLen(message) > n]

(* ------------------------------ the run ------------------------------- *)
(* Sequences of at most n elements of S. *)
SeqsUpTo(S, n) == UNION {[1..k -> S] : k \in 0..n}

(* The backup file left by an earlier run. *)
OldBackup == <<Line(<<>>, "invalid", NoObject, 7)>>

(* One statement of console output. *)
Log(level, tag, data) == [level |-> level, tag |-> tag, data |-> data]

(* State at the try block of main, after loadConfig and the argv tests. *)
InitWith(sources) ==
    /\ pc = "start"
    /\ doTruncate \in BOOLEAN
    /\ doInsert \in BOOLEAN
    /\ source \in sources
    /\ source0 = source
    /\ backupFile = OldBackup
    /\ pos = 0
    /\ successful = <<>>
    /\ failed = <<>>
    /\ entries = <<>>
    /\ failedEntries = <<>>
    /\ pool = "none"
    /\ start = 0
    /\ calls = <<>>
    /\ store = <<>>
    /\ sent = <<>>
    /\ console = <<>>
    /\ inflight = {}
    /\ steps = <<>>
    /\ error = NoError
    /\ exitCode = -1

Init == InitWith(SeqsUpTo(Lines, MaxLines))

(* Sources made of rejected lines, after at most one accepted line. *)
InitReport ==
    InitWith({p \o r : p \in {<<>>, <<LineGood>>},
                       r \in SeqsUpTo(RejectedLines, MaxRejected)})

InitOrder == InitWith(SeqsUpTo(OrderLines, MaxOrder))

InitFailures == InitWith(SeqsUpTo(FailureLines, MaxOrder))

(* Runs on a source of one line. *)
InitChain == InitWith({<<line>> : line \in ChainLines})

(* The body of report() up to the await: console.info of the whole       *)
(* message, then webhook.send of the message cut to 2000 characters.      *)
report(message, step, awaiting) ==
    /\ console' = Append(console, Log("info", message.kind, message))
    /\ inflight' = inflight \cup {[op |-> "send", content |-> SliceMessage(message, MAX_MESSAGE_LENGTH)]}
    /\ steps' = Append(steps, step)
    /\ pc' = awaiting

(* await report(webhook, 'Log transfer started.') *)
AnnounceStart ==
    /\ pc = "start"
    /\ report(Message("started", 0, NoError, <<>>), "announce", "await_start")
    /\ UNCHANGED <<doTruncate, doInsert, source, source0, backupFile, pos,
                   successful, failed, entries, failedEntries, pool, start,
                   calls, store, sent, error, exitCode>>

(* Where main continues after the report awaited at pc. *)
AfterReport(at) ==
    CASE at = "await_start" -> "backup"
      [] at = "await_failed" -> "load"
      [] at = "await_success" -> "done"
      [] OTHER -> "done"

(* report() without its try/catch: a rejected send reaches the catch of  *)
(* main.                                                                  *)
ReportReturn_noCatch ==
    /\ pc \in {"await_start", "await_failed", "await_success", "await_failure"}
    /\ \E op \in inflight, delivered \in BOOLEAN :
        /\ op.op = "send"
        /\ inflight' = inflight \ {op}
        /\ sent' = Append(sent, [content |-> op.content, delivered |-> delivered])
        /\ console' = console
        /\ IF delivered \/ pc = "await_failure"
           THEN /\ pc' = AfterReport(pc)
                /\ error' = error
                /\ exitCode' = CASE pc = "await_success" -> 0
                                 [] pc = "await_failure" -> 1
                                 [] OTHER -> exitCode
           ELSE /\ pc' = "catch"
                /\ error' = [msg |-> "send failed", value |-> <<>>]
                /\ exitCode' = exitCode
    /\ UNCHANGED <<doTruncate, doInsert, source, source0, backupFile, pos,
                   successful, failed, entries, failedEntries, pool, start,
                   calls, store, steps>>

(* The catch block without process.exit(1): the run ends like a success. *)
ReportReturn_noExit ==
    /\ pc \in {"await_start", "await_failed", "await_success", "await_failure"}
    /\ \E op \in inflight, delivered \in BOOLEAN :
        /\ op.op = "send"
        /\ inflight' = inflight \ {op}
        /\ sent' = Append(sent, [content |-> op.content, delivered |-> delivered])
        /\ console' = console
    /\ pc' = AfterReport(pc)
    /\ exitCode' = IF pc \in {"await_success", "await_failure"} THEN 0 ELSE exitCode
    /\ UNCHANGED <<doTruncate, doInsert, source, source0, backupFile, pos,
                   successful, failed, entries, failedEntries, pool, start,
                   calls, store, steps, error>>

(* reportFailedEntries without its console.debug of all entries. *)
ReportReturn_noDebug ==
    /\ pc \in {"await_start", "await_failed", "await_success", "await_failure"}
    /\ \E op \in inflight, delivered \in BOOLEAN :
        /\ op.op = "send"
        /\ inflight' = inflight \ {op}
        /\ sent' = Append(sent, [content |-> op.content, delivered |-> delivered])
        /\ console' =
             LET afterSend == IF delivered THEN console
                              ELSE Append(console, Log("error", "Webhook error:", <<>>))
             IN  IF pc = "await_failure"
                 THEN Append(afterSend, Log("error", "Full error:", <<error>>))
                 ELSE afterSend
    /\ pc' = AfterReport(pc)
    /\ exitCode' = CASE pc = "await_success" -> 0
                     [] pc = "await_failure" -> 1
                     [] OTHER -> exitCode
    /\ UNCHANGED <<doTruncate, doInsert, source, source0, backupFile, pos,
                   successful, failed, entries, failedEntries, pool, start,
                   calls, store, steps, error>>

(* webhook.send settles: report() swallows a rejection and returns.  The  *)
(* statements of the caller up to its next await run with the return.     *)
ReportReturn ==
    /\ pc \in {"await_start", "await_failed", "await_success", "await_failure"}
    /\ \E op \in inflight, delivered \in BOOLEAN :
        /\ op.op = "send"
        /\ inflight' = inflight \ {op}
        /\ sent' = Append(sent, [content |-> op.content, delivered |-> delivered])
        /\ console' =
             LET afterSend == IF delivered THEN console
                              ELSE Append(console, Log("error", "Webhook error:", <<>>))
             IN  IF pc = "await_failed" /\ Len(failedEntries) > MAX_DISPLAYED
                 THEN Append(afterSend, Log("debug", "All failed entries:", failedEntries))
                 ELSE IF pc = "await_failure"
                 THEN Append(afterSend, Log("error", "Full error:", <<error>>))
                 ELSE afterSend
    /\ pc' = AfterReport(pc)
    /\ exitCode' = CASE pc = "await_success" -> 0
                     [] pc = "await_failure" -> 1
                     [] OTHER -> exitCode
    /\ UNCHANGED <<doTruncate, doInsert, source, source0, backupFile, pos,
                   successful, failed, entries, failedEntries, pool, start,
                   calls, store, steps, error>>

(* The backup skipped when truncation is enabled. *)
Backup_skipped ==
    /\ pc = "backup"
    /\ pc' = "parse"
    /\ UNCHANGED <<inflight, steps, doTruncate, doInsert, source, source0,
                   backupFile, pos, successful, failed, entries, failedEntries,
                   pool, start, calls, store, sent, console, error, exitCode>>

(* if (doTruncate) await copyFile(path, backup) *)
Backup ==
    /\ pc = "backup"
    /\ IF doTruncate
       THEN /\ inflight' = inflight \cup {[op |-> "copyFile"]}
            /\ steps' = Append(steps, "backup")
            /\ pc' = "await_copy"
       ELSE /\ pc' = "parse"
            /\ UNCHANGED <<inflight, steps>>
    /\ UNCHANGED <<doTruncate, doInsert, source, source0, backupFile, pos,
                   successful, failed, entries, failedEntries, pool, start,
                   calls, store, sent, console, error, exitCode>>

(* A rejected await inside the try block: control moves to the catch. *)
Fail(op, msg) ==
    /\ inflight' = inflight \ {op}
    /\ error' = [msg |-> msg, value |-> <<>>]
    /\ pc' = "catch"

CopyDone ==
    /\ pc = "await_copy"
    /\ \E op \in inflight :
        /\ op.op = "copyFile"
        /\ \/ /\ backupFile' = source
              /\ inflight' = inflight \ {op}
              /\ pc' = "parse"
              /\ UNCHANGED error
           \/ /\ Fail(op, "copyFile failed")
              /\ UNCHANGED backupFile
    /\ UNCHANGED <<doTruncate, doInsert, source, source0, pos,
                   successful, failed, entries, failedEntries, pool, start,
                   calls, store, sent, console, steps, exitCode>>

(* const [entries, failedEntries] = await loadEntries(path): the stream  *)
(* is opened and the first line awaited.                                  *)
Parse ==
    /\ pc = "parse"
    /\ pos' = 1
    /\ successful' = <<>>
    /\ failed' = <<>>
    /\ inflight' = inflight \cup {[op |-> "read"]}
    /\ steps' = Append(steps, "parse")
    /\ pc' = "await_line"
    /\ UNCHANGED <<doTruncate, doInsert, source, source0, backupFile,
                   entries, failedEntries, pool, start, calls, store, sent,
                   console, error, exitCode>>

(* error && error.message || 'Unknown error.' *)
ErrorMessage(err) == IF err = NoError THEN [msg |-> "Unknown error.", value |-> <<>>] ELSE err

(* The rejected entry put at the front of the sequence. *)
LoopBody_prepend(acc, line) ==
    IF IsBlank(line) THEN acc
    ELSE LET result == Validate(line)
         IN  IF result.ok
             THEN [acc EXCEPT !.successful = Append(@, result.value)]
             ELSE [acc EXCEPT !.failed =
                      <<[error |-> ErrorMessage(result.error), line |-> line]>> \o @]

(* The body of the for await loop of loadEntries: skip, push or catch. *)
LoopBody(acc, line) ==
    IF IsBlank(line) THEN acc
    ELSE LET result == Validate(line)
         IN  IF result.ok
             THEN [acc EXCEPT !.successful = Append(@, result.value)]
             ELSE [acc EXCEPT !.failed =
                      Append(@, [error |-> ErrorMessage(result.error), line |-> line])]

(* The loop without its try/catch: a rejected chain leaves loadEntries. *)
ReadLine_noCatch ==
    /\ pc = "await_line"
    /\ pos <= Len(source)
    /\ LET result == Validate(source[pos])
       IN  IF IsBlank(source[pos]) \/ result.ok
           THEN /\ LET acc == LoopBody([successful |-> successful, failed |-> failed],
                                       source[pos])
                   IN  /\ successful' = acc.successful
                       /\ failed' = acc.failed
                /\ pos' = pos + 1
                /\ UNCHANGED <<pc, error>>
           ELSE /\ error' = result.error
                /\ pc' = "catch"
                /\ UNCHANGED <<successful, failed, pos>>
    /\ UNCHANGED <<doTruncate, doInsert, source, source0, backupFile,
                   entries, failedEntries, pool, start, calls, store, sent,
                   console, inflight, steps, exitCode>>

(* readline yields the next line of the file. *)
ReadLine ==
    /\ pc = "await_line"
    /\ pos <= Len(source)
    /\ LET acc == LoopBody([successful |-> successful, failed |-> failed], source[pos])
       IN  /\ successful' = acc.successful
           /\ failed' = acc.failed
    /\ pos' = pos + 1
    /\ UNCHANGED <<pc, doTruncate, doInsert, source, source0, backupFile,
                   entries, failedEntries, pool, start, calls, store, sent,
                   console, inflight, steps, error, exitCode>>

(* The stream error swallowed: loadEntries returns what it has read. *)
ReadError_swallowed ==
    /\ pc = "await_line"
    /\ \E op \in inflight : op.op = "read" /\ inflight' = inflight \ {op}
    /\ entries' = successful
    /\ failedEntries' = failed
    /\ pc' = "truncate"
    /\ UNCHANGED <<doTruncate, doInsert, source, source0, backupFile, pos,
                   successful, failed, pool, start, calls, store, sent,
                   console, steps, error, exitCode>>

(* The stream fails: the for-await loop throws out of loadEntries. *)
ReadError ==
    /\ pc = "await_line"
    /\ \E op \in inflight : op.op = "read" /\ Fail(op, "read failed")
    /\ UNCHANGED <<doTruncate, doInsert, source, source0, backupFile, pos,
                   successful, failed, entries, failedEntries, pool, start,
                   calls, store, sent, console, steps, exitCode>>

(* End of stream: return [successful, failed]. *)
ReadEnd ==
    /\ pc = "await_line"
    /\ pos > Len(source)
    /\ \E op \in inflight : op.op = "read" /\ inflight' = inflight \ {op}
    /\ entries' = successful
    /\ failedEntries' = failed
    /\ pc' = "truncate"
    /\ UNCHANGED <<doTruncate, doInsert, source, source0, backupFile, pos,
                   successful, failed, pool, start, calls, store, sent,
                   console, steps, error, exitCode>>

(* The truncation made to depend on the insertion toggle. *)
Truncate_byInsert ==
    /\ pc = "truncate"
    /\ IF doInsert
       THEN /\ inflight' = inflight \cup {[op |-> "truncate"]}
            /\ steps' = Append(steps, "truncate")
            /\ pc' = "await_truncate"
       ELSE /\ pc' = "reportFailed"
            /\ UNCHANGED <<inflight, steps>>
    /\ UNCHANGED <<doTruncate, doInsert, source, source0, backupFile, pos,
                   successful, failed, entries, failedEntries, pool, start,
                   calls, store, sent, console, error, exitCode>>

(* if (doTruncate) await truncate(path) *)
Truncate ==
    /\ pc = "truncate"
    /\ IF doTruncate
       THEN /\ inflight' = inflight \cup {[op |-> "truncate"]}
            /\ steps' = Append(steps, "truncate")
            /\ pc' = "await_truncate"
       ELSE /\ pc' = "reportFailed"
            /\ UNCHANGED <<inflight, steps>>
    /\ UNCHANGED <<doTruncate, doInsert, source, source0, backupFile, pos,
                   successful, failed, entries, failedEntries, pool, start,
                   calls, store, sent, console, error, exitCode>>

TruncateDone ==
    /\ pc = "await_truncate"
    /\ \E op \in inflight :
        /\ op.op = "truncate"
        /\ \/ /\ source' = <<>>
              /\ inflight' = inflight \ {op}
              /\ pc' = "reportFailed"
              /\ UNCHANGED error
           \/ /\ Fail(op, "truncate failed")
              /\ UNCHANGED source
    /\ UNCHANGED <<doTruncate, doInsert, source0, backupFile, pos,
                   successful, failed, entries, failedEntries, pool, start,
                   calls, store, sent, console, steps, exitCode>>

(* The index shown without the + 1. *)
FormatEntries_zeroBased(list) ==
    [i \in 1..Min(MAX_DISPLAYED, Len(list)) |->
        [index |-> i - 1, error |-> list[i].error, line |-> list[i].line]]

(* entries.slice(0, 5).map(...): index + 1, error and line of each. *)
FormatEntries(list) ==
    [i \in 1..Min(MAX_DISPLAYED, Len(list)) |->
        [index |-> i, error |-> list[i].error, line |-> list[i].line]]

(* await reportFailedEntries(webhook, failedEntries) *)
reportFailedEntries ==
    /\ pc = "reportFailed"
    /\ IF Len(failedEntries) = 0
       THEN /\ pc' = "load"
            /\ UNCHANGED <<console, inflight, steps>>
       ELSE report(Message("failedEntries", Len(failedEntries), NoError,
                           FormatEntries(failedEntries)),
                   "reportFailures", "await_failed")
    /\ UNCHANGED <<doTruncate, doInsert, source, source0, backupFile, pos,
                   successful, failed, entries, failedEntries, pool, start,
                   calls, store, sent, error, exitCode>>

(* The row of one entry, in the column order of QUERY. *)
Row(e) ==
    <<Get(e, "host"), Get(e, "user"), Get(e, "time"), Get(e, "method"),
      Get(e, "path"), Get(e, "query"), Get(e, "status"), Get(e, "responseSize"),
      Get(e, "processTime"), Get(e, "referer"), Get(e, "userAgent"), Get(e, "bot"),
      Get(e, "browser"), Get(e, "deviceType"), Get(e, "os"), Get(e, "country")>>

(* slice taken as (from, length) instead of (from, end). *)
Batch_length(list, from) ==
    LET batch == SubSeq(list, from + 1, Min(CHUNK_SIZE, Len(list)))
    IN  [i \in 1..Len(batch) |-> Row(batch[i])]

(* entries.slice(from, from + CHUNK_SIZE).map(e => [...]) *)
Batch(list, from) ==
    LET batch == SubSeq(list, from + 1, Min(from + CHUNK_SIZE, Len(list)))
    IN  [i \in 1..Len(batch) |-> Row(batch[i])]

(* The queries of the loop started without await: the next one is issued *)
(* while the one before is still in flight.                               *)
LoopStep_noAwait(pending, from) ==
    IF from < Len(entries)
    THEN /\ inflight' = inflight \cup {[op |-> "query", batch |-> Batch(entries, from)]}
         /\ calls' = Append(calls, Batch(entries, from))
         /\ pc' = "await_query"
    ELSE /\ inflight' = pending \cup {[op |-> "end", batch |-> <<>>]}
         /\ calls' = calls
         /\ pc' = "await_end"

(* The loop written as do ... while: its body runs once for no entries. *)
LoopStep_doWhile(pending, from) ==
    IF from < Len(entries) \/ from = 0
    THEN /\ inflight' = pending \cup {[op |-> "query", batch |-> Batch(entries, from)]}
         /\ calls' = Append(calls, Batch(entries, from))
         /\ pc' = "await_query"
    ELSE /\ inflight' = pending \cup {[op |-> "end", batch |-> <<>>]}
         /\ calls' = calls
         /\ pc' = "await_end"

(* The loop test of insertEntries with start = from, while the operations *)
(* in pending are in flight: the next pool.query is issued and awaited,   *)
(* or the loop is left and pool.end() is awaited.                         *)
LoopStep(pending, from) ==
    IF from < Len(entries)
    THEN /\ inflight' = pending \cup {[op |-> "query", batch |-> Batch(entries, from)]}
         /\ calls' = Append(calls, Batch(entries, from))
         /\ pc' = "await_query"
    ELSE /\ inflight' = pending \cup {[op |-> "end", batch |-> <<>>]}
         /\ calls' = calls
         /\ pc' = "await_end"

(* if (doInsert) await insertEntries(db, entries): createPool and the     *)
(* first pass of the loop.                                                *)
insertEntries ==
    /\ pc = "load"
    /\ IF doInsert
       THEN /\ pool' = "open"
            /\ start' = 0
            /\ steps' = Append(steps, "load")
            /\ LoopStep(inflight, 0)
       ELSE /\ pc' = "success"
            /\ UNCHANGED <<pool, start, steps, inflight, calls>>
    /\ UNCHANGED <<doTruncate, doInsert, source, source0, backupFile, pos,
                   successful, failed, entries, failedEntries, store, sent,
                   console, error, exitCode>>

(* A rejected pool.query caught inside the loop, which goes on. *)
QueryDone_continue ==
    /\ pc = "await_query"
    /\ \E op \in inflight :
        /\ op.op = "query"
        /\ \/ store' = store \o op.batch
           \/ store' = store
        /\ start' = start + CHUNK_SIZE
        /\ LoopStep(inflight \ {op}, start + CHUNK_SIZE)
    /\ UNCHANGED <<doTruncate, doInsert, source, source0, backupFile, pos,
                   successful, failed, entries, failedEntries, pool, sent,
                   console, steps, exitCode, error>>

(* pool.query settles: the rows are stored and the loop goes on, or the   *)
(* rejection leaves insertEntries.                                        *)
QueryDone ==
    /\ pc = "await_query"
    /\ \E op \in inflight :
        /\ op.op = "query"
        /\ \/ /\ store' = store \o op.batch
              /\ start' = start + CHUNK_SIZE
              /\ LoopStep(inflight \ {op}, start + CHUNK_SIZE)
              /\ UNCHANGED <<error>>
           \/ /\ Fail(op, "query failed")
              /\ UNCHANGED <<store, start, calls>>
    /\ UNCHANGED <<doTruncate, doInsert, source, source0, backupFile, pos,
                   successful, failed, entries, failedEntries, pool, sent,
                   console, steps, exitCode>>

(* await pool.end() *)
EndDone ==
    /\ pc = "await_end"
    /\ \E op \in inflight :
        /\ op.op = "end"
        /\ \/ /\ pool' = "closed"
              /\ inflight' = inflight \ {op}
              /\ pc' = "success"
              /\ UNCHANGED error
           \/ /\ Fail(op, "pool end failed")
              /\ UNCHANGED pool
    /\ UNCHANGED <<doTruncate, doInsert, source, source0, backupFile, pos,
                   successful, failed, entries, failedEntries, start, calls,
                   store, sent, console, steps, exitCode>>

(* await report(webhook, entries.length + ' entries successfully transferred.') *)
ReportSuccess ==
    /\ pc = "success"
    /\ report(Message("success", Len(entries), NoError, <<>>),
              "reportSuccess", "await_success")
    /\ UNCHANGED <<doTruncate, doInsert, source, source0, backupFile, pos,
                   successful, failed, entries, failedEntries, pool, start,
                   calls, store, sent, error, exitCode>>

(* catch (error): await report(webhook, 'Log transfer failed: ' + error.message) *)
Catch ==
    /\ pc = "catch"
    /\ report(Message("failure", 0, error, <<>>), "reportFailure", "await_failure")
    /\ UNCHANGED <<doTruncate, doInsert, source, source0, backupFile, pos,
                   successful, failed, entries, failedEntries, pool, start,
                   calls, store, sent, error, exitCode>>

Next ==
    \/ AnnounceStart
    \/ ReportReturn
    \/ Backup
    \/ CopyDone
    \/ Parse
    \/ ReadLine
    \/ ReadError
    \/ ReadEnd
    \/ Truncate
    \/ TruncateDone
    \/ reportFailedEntries
    \/ insertEntries
    \/ QueryDone
    \/ EndDone
    \/ ReportSuccess
    \/ Catch

Spec == Init /\ [][Next]_vars

SpecReport == InitReport /\ [][Next]_vars

SpecOrder == InitOrder /\ [][Next]_vars

SpecFailures == InitFailures /\ [][Next]_vars

SpecChain == InitChain /\ [][Next]_vars

(* ------------------------------ run again ----------------------------- *)
(* The script started again, with any flags, once a run has ended and left *)
(* the source file empty: the files and the store are as the run left them *)
(* and everything else is as at the start of main.                         *)
Rerun ==
    /\ pc = "done"
    /\ source = <<>>
    /\ pc' = "start"
    /\ doTruncate' \in BOOLEAN
    /\ doInsert' \in BOOLEAN
    /\ source0' = source
    /\ pos' = 0
    /\ successful' = <<>>
    /\ failed' = <<>>
    /\ entries' = <<>>
    /\ failedEntries' = <<>>
    /\ pool' = "none"
    /\ start' = 0
    /\ calls' = <<>>
    /\ sent' = <<>>
    /\ console' = <<>>
    /\ inflight' = {}
    /\ steps' = <<>>
    /\ error' = NoError
    /\ exitCode' = -1
    /\ UNCHANGED <<source, backupFile, store>>

MaxRerun == 2
RerunLines == {LineGood, LineBadJson}
InitRerun == InitWith(SeqsUpTo(RerunLines, MaxRerun))

NextRerun == Next \/ Rerun

SpecRerun == InitRerun /\ [][NextRerun]_vars

(* ----------------------------- log writer ----------------------------- *)
(* The web server, a process of its own, appends a line to the source     *)
(* file at any moment of a run; the stream of loadEntries reads to the    *)
(* end the file has when it gets there.                                   *)
MaxWritten == 2
WriterAppend ==
    /\ pc # "done"
    /\ Len(source) < MaxWritten
    /\ \E line \in RerunLines : source' = Append(source, line)
    /\ UNCHANGED <<pc, doTruncate, doInsert, source0, backupFile, pos,
                   successful, failed, entries, failedEntries, pool, start,
                   calls, store, sent, console, inflight, steps, error, exitCode>>

InitWriter == InitWith(SeqsUpTo(RerunLines, MaxWritten))

NextWriter == Next \/ WriterAppend

SpecWriter == InitWriter /\ [][NextWriter]_vars

(* ------------------------------ claims -------------------------------- *)
Range(f) == {f[i] : i \in DOMAIN f}

RECURSIVE Flatten(_)
Flatten(seqs) == IF seqs = <<>> THEN <<>> ELSE Head(seqs) \o Flatten(Tail(seqs))

(* A line with text after its whitespace. *)
NonBlank(line) == line.doc.kind # "none"

(* loadEntries has returned to main. *)
Parsed ==
    /\ \E i \in 1..Len(steps) : steps[i] = "parse"
    /\ pc # "await_line"
    /\ error.msg # "read failed"

(* The step named s has been started. *)
Started(s) == \E i \in 1..Len(steps) : steps[i] = s

(* C1: once loadEntries has returned, the rejected entries are exactly   *)
(* the occurrences of the rejected non-blank lines, the accepted entries  *)
(* come one each from the other non-blank lines, no blank line is in      *)
(* either sequence, and the two lengths add up to the number of           *)
(* non-blank lines.                                                       *)
C1_Partition ==
    Parsed =>
        LET nonBlank == SelectSeq(source0, NonBlank)
            rejected == {failedEntries[i].line : i \in 1..Len(failedEntries)}
            IsRejected(l) == l \in rejected
            IsAccepted(l) == l \notin rejected
            accepted == SelectSeq(nonBlank, IsAccepted)
        IN  /\ Len(entries) + Len(failedEntries) = Len(nonBlank)
            /\ [i \in 1..Len(failedEntries) |-> failedEntries[i].line]
                   = SelectSeq(nonBlank, IsRejected)
            /\ Len(entries) = Len(accepted)
            /\ \A i \in 1..Len(entries) :
                   entries[i]["host"] = accepted[i].doc.obj["host"]

C1_Witness ==
    /\ Parsed
    /\ entries # <<>>
    /\ failedEntries # <<>>
    /\ \E i \in 1..Len(source0) : source0[i] = LineSpaces

(* C2: truncate is called only with truncation enabled and after the     *)
(* parse read the source to its end; the source changes only by that     *)
(* call; a run whose parse failed never calls truncate and leaves the    *)
(* source as it was.                                                      *)
C2_TruncateAfterParse ==
    /\ Started("truncate") => (doTruncate /\ Parsed /\ pos = Len(source0) + 1)
    /\ source # source0 => Started("truncate")
    /\ error.msg = "read failed" => (~Started("truncate") /\ source = source0)

C2_Witness ==
    /\ pc = "done"
    /\ doTruncate
    /\ error.msg = "read failed"
    /\ pos > 1
    /\ pos <= Len(source0)

(* A line of the source whose row is not in the store. *)
NotInserted(line) ==
    ~(Validate(line).ok /\ Row(Validate(line).value) \in Range(store))

(* C3 as stated: after a failed run with both toggles enabled every      *)
(* entry of the source that was not inserted is still in the source.     *)
C3_Original ==
    (pc = "done" /\ exitCode = 1 /\ doTruncate /\ doInsert) =>
        \A i \in 1..Len(source0) :
            (NonBlank(source0[i]) /\ NotInserted(source0[i]))
                => source0[i] \in Range(source)

(* C3 amended: after a failed run with both toggles enabled, a failure   *)
(* of the backup, parse or truncate step leaves the source file as it    *)
(* was; a failure of the load step finds the source file already         *)
(* truncated, and all lines it held are in the backup file.              *)
C3_Amended ==
    (pc = "done" /\ exitCode = 1 /\ doTruncate /\ doInsert) =>
        IF Started("load")
        THEN source = <<>> /\ backupFile = source0
        ELSE source = source0

C3_Witness ==
    /\ pc = "done"
    /\ exitCode = 1
    /\ doTruncate
    /\ doInsert
    /\ error.msg = "query failed"
    /\ store # <<>>
    /\ Len(store) < Len(entries)

(* C4: every insert call carries between 1 and CHUNK_SIZE rows; once the *)
(* loop of insertEntries is left, ceil(N / CHUNK_SIZE) calls were issued  *)
(* and their rows, in issue order, are the rows of the accepted sequence  *)
(* in its order.                                                          *)
C4_Chunking ==
    /\ \A k \in 1..Len(calls) : Len(calls[k]) >= 1 /\ Len(calls[k]) <= CHUNK_SIZE
    /\ (pc = "await_end" \/ pool = "closed") =>
          /\ Len(calls) = (Len(entries) + CHUNK_SIZE - 1) \div CHUNK_SIZE
          /\ Flatten(calls) = [i \in 1..Len(entries) |-> Row(entries[i])]

C4_Witness ==
    /\ pool = "closed"
    /\ Len(calls) >= 2
    /\ Len(calls[Len(calls)]) < CHUNK_SIZE

(* A pool.query in flight settles without its rows reaching the store. *)
QueryRejected ==
    /\ pc = "await_query"
    /\ store' = store
    /\ \/ pc' # "await_query"
       \/ calls' # calls

(* C5: a rejected insert moves control to the catch block and issues no  *)
(* further insert; from then on the store holds exactly the rows of the   *)
(* calls before the rejected one, and the run ends with exit code 1.      *)
C5_AbortOnFailure ==
    /\ [][QueryRejected => (pc' = "catch" /\ calls' = calls
                            /\ error'.msg = "query failed")]_vars
    /\ [](error.msg = "query failed" =>
            /\ pc \in {"catch", "await_failure", "done"}
            /\ (pc = "done" => exitCode = 1)
            /\ \A op \in inflight : op.op # "query"
            /\ calls # <<>>
            /\ store = Flatten(SubSeq(calls, 1, Len(calls) - 1)))
    /\ [][error.msg = "query failed" => (calls' = calls /\ store' = store)]_vars

C5_Witness ==
    /\ pc = "done"
    /\ exitCode = 1
    /\ error.msg = "query failed"
    /\ Len(calls) = 2
    /\ store = calls[1]

(* The load step has ended: insertEntries was called and awaits nothing. *)
LoadEnded == Started("load") /\ pc \notin {"await_query", "await_end"}

(* C6 as stated: whenever the load step has ended, with all inserts      *)
(* fulfilled or with one rejected, the pool it created is closed.         *)
C6_Original == LoadEnded => pool = "closed"

StepOrder ==
    <<"announce", "backup", "parse", "truncate", "reportFailures", "load",
      "reportSuccess", "reportFailure">>

StepIndex(s) == CHOOSE i \in 1..Len(StepOrder) : StepOrder[i] = s

(* C7: the steps start in the order announce, backup, parse, truncate,   *)
(* report-failures, load, report-success (the failure report of the       *)
(* catch block comes last); a step starts only when nothing is in         *)
(* flight, and at most one operation is in flight at any time.            *)
C7_Sequential ==
    /\ [](/\ Cardinality(inflight) <= 1
          /\ \A i, j \in 1..Len(steps) :
                 i < j => StepIndex(steps[i]) < StepIndex(steps[j]))
    /\ [][steps' # steps => inflight = {}]_vars
    /\ [][calls' # calls => Cardinality(inflight') = 1]_vars

C7_Witness ==
    /\ pc = "done"
    /\ exitCode = 0
    /\ steps = SubSeq(StepOrder, 1, 7)
    /\ Len(calls) >= 2

(* A webhook.send outside the catch block is rejected in this step. *)
DeliveryFails ==
    /\ Len(sent') = Len(sent) + 1
    /\ ~sent'[Len(sent')].delivered
    /\ pc # "await_failure"

(* C8: a rejected delivery of the start announcement, the failed-entries *)
(* report or the success report leaves no error and moves main to the     *)
(* statement that follows a fulfilled delivery, changing nothing but the  *)
(* record of the delivery and the console.                                *)
C8_BestEffort ==
    [][DeliveryFails =>
        /\ error = NoError
        /\ error' = NoError
        /\ pc' = (CASE pc = "await_start" -> "backup"
                    [] pc = "await_failed" -> "load"
                    [] OTHER -> "done")
        /\ exitCode' = (IF pc = "await_success" THEN 0 ELSE exitCode)
        /\ UNCHANGED <<source, backupFile, entries, failedEntries, pool,
                       calls, store, steps>>]_vars

C8_Witness ==
    /\ pc = "done"
    /\ exitCode = 0
    /\ Len(sent) = 3
    /\ \A i \in 1..3 : ~sent[i].delivered
    /\ store # <<>>

SentKinds == {sent[i].content.kind : i \in 1..Len(sent)}

(* The steps a successful run goes through. *)
ExpectedSteps ==
    <<"announce">> \o (IF doTruncate THEN <<"backup">> ELSE <<>>) \o <<"parse">>
    \o (IF doTruncate THEN <<"truncate">> ELSE <<>>)
    \o (IF failedEntries # <<>> THEN <<"reportFailures">> ELSE <<>>)
    \o (IF doInsert THEN <<"load">> ELSE <<>>) \o <<"reportSuccess">>

(* C9: a finished run is in exactly one of two states.  Success: exit    *)
(* code 0, no error, every enabled step ran to its end, the success       *)
(* report was handed to the webhook and no failure notification was.      *)
(* Failed: exit code 1, a failure notification carrying the error was     *)
(* handed to the webhook and no success report was.  A step that fails    *)
(* puts the run on the path to the failed state: it cannot end with       *)
(* exit code 0, and nothing but the failure notification follows.         *)
C9_Terminal ==
    /\ pc = "done" =>
          \/ /\ exitCode = 0
             /\ error = NoError
             /\ steps = ExpectedSteps
             /\ "success" \in SentKinds
             /\ "failure" \notin SentKinds
             /\ doTruncate => (source = <<>> /\ backupFile = source0)
             /\ doInsert => (pool = "closed" /\ Len(store) = Len(entries))
          \/ /\ exitCode = 1
             /\ error # NoError
             /\ "success" \notin SentKinds
             /\ sent[Len(sent)].content.kind = "failure"
             /\ sent[Len(sent)].content.error = error
             /\ ~sent[Len(sent)].content.cut
    /\ exitCode \in {-1, 0, 1}
    /\ exitCode # -1 => pc = "done"
    /\ error # NoError =>
          /\ pc \in {"catch", "await_failure", "done"}
          /\ exitCode # 0
          /\ \A i \in 1..Len(steps) :
                 steps[i] = "reportFailure" => i = Len(steps)
    /\ pc = "catch" => error.msg \in
          {"copyFile failed", "read failed", "truncate failed",
           "query failed", "pool end failed"}

C9_Witness ==
    /\ pc = "done"
    /\ exitCode = 1
    /\ error.msg = "truncate failed"
    /\ backupFile = source0
    /\ source0 # <<>>

(* The failed-entries notifications handed to the webhook. *)
FailedNotifications ==
    {i \in 1..Len(sent) : sent[i].content.kind = "failedEntries"}

(* The report-failures step is over. *)
ReportedFailures == Parsed /\ pc \in {"load", "await_query", "await_end", "success",
                                      "await_success"}

(* The i-th example is the i-th rejected entry, numbered i. *)
ExampleMatches(ex, i) ==
    /\ ex.index = i
    /\ ex.error = failedEntries[i].error
    /\ ex.line = failedEntries[i].line

(* C10 as stated: the notification is sent exactly when there are        *)
(* rejected entries, states their number and lists exactly                *)
(* min(5, number rejected) examples, the first rejected entries numbered  *)
(* from 1.                                                                *)
C10_Original ==
    /\ ReportedFailures => (FailedNotifications # {} <=> failedEntries # <<>>)
    /\ \A n \in FailedNotifications :
          LET content == sent[n].content
          IN  /\ content.count = Len(failedEntries)
              /\ Len(content.examples) = Min(5, Len(failedEntries))
              /\ \A i \in 1..Len(content.examples) :
                     ExampleMatches(content.examples[i], i)

(* C10 amended: the notification is handed to the webhook exactly when   *)
(* there are rejected entries; it states their number; its text lists     *)
(* the first min(5, number rejected) rejected entries numbered from 1,    *)
(* and what is delivered is the first 2000 characters of that text: all   *)
(* of the examples when the text is that short, otherwise only those      *)
(* that fit whole before the cut.                                         *)
C10_Amended ==
    /\ ReportedFailures => (Cardinality(FailedNotifications) =
                                IF failedEntries # <<>> THEN 1 ELSE 0)
    /\ \A n \in FailedNotifications :
          LET content == sent[n].content
              shown == Len(content.examples)
              most == Min(5, Len(failedEntries))
              full == [i \in 1..most |->
                          [index |-> i, error |-> failedEntries[i].error,
                           line |-> failedEntries[i].line]]
              TextLen(k) == DecimalLen(Len(failedEntries)) + 40
                            + ExamplesLen(SubSeq(full, 1, k))
          IN  /\ content.count = Len(failedEntries)
              /\ shown <= most
              /\ \A i \in 1..shown : ExampleMatches(content.examples[i], i)
              /\ TextLen(shown) <= 2000
              /\ shown < most => TextLen(shown + 1) > 2000
              /\ content.cut <=> TextLen(most) > 2000

C10_Witness ==
    \E n \in FailedNotifications :
        /\ sent[n].content.count > 5
        /\ Len(sent[n].content.examples) = 5
        /\ ~sent[n].content.cut

(* The console record c shows the rejected entry e: c is the console.debug *)
(* of the array that holds e, or the console.info of a message whose text  *)
(* lists the error and the line of e.                                      *)
ShowsEntry(c, e) ==
    \/ /\ c.level = "debug"
       /\ \E i \in 1..Len(c.data) : c.data[i] = e
    \/ /\ c.level = "info"
       /\ c.tag = "failedEntries"
       /\ \E i \in 1..Len(c.data.examples) :
              /\ c.data.examples[i].error = e.error
              /\ c.data.examples[i].line = e.line

(* C11: once the report-failures step has run, every rejected entry, for  *)
(* any number of them, is on the console with its error and its line:      *)
(* up to five through the message report() logs in full, more than five    *)
(* through the console.debug of the whole sequence.                        *)
C11_AllLogged ==
    ReportedFailures =>
        \A i \in 1..Len(failedEntries) :
            \E k \in 1..Len(console) : ShowsEntry(console[k], failedEntries[i])

C11_Witness ==
    /\ ReportedFailures
    /\ Len(failedEntries) = 6
    /\ failedEntries[6].line # failedEntries[1].line

(* The run ended with the success report. *)
Succeeded == pc = "done" /\ exitCode = 0

(* C12: the two toggles act independently.  With truncation disabled no   *)
(* backup copy and no truncate is made and the source and the backup file  *)
(* stay as they were; with truncation enabled the copy is made before the  *)
(* parse and the source is emptied before the failures are reported.  With *)
(* insertion disabled no pool is created and no insert call is made; with  *)
(* insertion enabled a successful run has inserted every accepted entry.   *)
(* Each half holds for both values of the other toggle.                    *)
C12_Independent ==
    /\ ~doTruncate =>
          /\ ~Started("backup")
          /\ ~Started("truncate")
          /\ source = source0
          /\ backupFile = OldBackup
    /\ doTruncate /\ Started("parse") =>
          /\ Started("backup")
          /\ backupFile = source0
    /\ doTruncate /\ (ReportedFailures \/ Succeeded) =>
          /\ Started("truncate")
          /\ source = <<>>
    /\ ~doInsert =>
          /\ ~Started("load")
          /\ pool = "none"
          /\ calls = <<>>
          /\ store = <<>>
    /\ doInsert /\ Succeeded =>
          /\ Started("load")
          /\ pool = "closed"
          /\ store = [i \in 1..Len(entries) |-> Row(entries[i])]

C12_Witness ==
    /\ ~doTruncate
    /\ doInsert
    /\ Succeeded
    /\ store # <<>>
    /\ source # <<>>
    /\ source = source0

(* The chain of loadEntries fulfils, or rejects, for a line that is read. *)
IsAccepted(line) == ~IsBlank(line) /\ Validate(line).ok
IsRejected(line) == ~IsBlank(line) /\ ~Validate(line).ok

(* The accepted values, and the rejected lines, of a sequence of lines. *)
AcceptedOf(lines) ==
    LET kept == SelectSeq(lines, IsAccepted)
    IN  [i \in 1..Len(kept) |-> Validate(kept[i]).value]
RejectedOf(lines) == SelectSeq(lines, IsRejected)

LinesOf(list) == [i \in 1..Len(list) |-> list[i].line]

(* The lines of the source that loadEntries has gone through. *)
LinesRead == SubSeq(source0, 1, pos - 1)

(* C13: while loadEntries reads, and when it returns, the accepted       *)
(* sequence holds the values of the accepted lines read so far in the      *)
(* order of the source, and the rejected sequence holds the rejected lines  *)
(* read so far in the order of the source, each with its unchanged text;    *)
(* what loadEntries returned are these two sequences for the whole source,  *)
(* and no later step changes them.                                          *)
C13_Order ==
    /\ [](pc \in {"await_line", "truncate"} =>
             /\ successful = AcceptedOf(LinesRead)
             /\ LinesOf(failed) = RejectedOf(LinesRead))
    /\ [](Parsed =>
             /\ pos = Len(source0) + 1
             /\ entries = successful
             /\ failedEntries = failed)
    /\ [][pc \notin {"parse", "await_line"} =>
             UNCHANGED <<source0, pos, successful, failed, entries, failedEntries>>]_vars

C13_Witness ==
    /\ Parsed
    /\ Len(source0) = 3
    /\ IsRejected(source0[1])
    /\ IsAccepted(source0[2])
    /\ IsRejected(source0[3])
    /\ source0[1] # source0[3]
    /\ LinesOf(failedEntries) = <<source0[1], source0[3]>>

(* Messages of the failures of the awaited file, database and webhook calls. *)
StepFailures == {"copyFile failed", "read failed", "truncate failed",
                 "query failed", "pool end failed"}

(* C14: the error the saga fails with is never the error of a line; the  *)
(* step that reads a line whose validation fails, whatever the failure,     *)
(* appends one rejected entry with that failure and that line, leaves the   *)
(* accepted sequence alone and stays in the loop; and when loadEntries has  *)
(* returned every line of the source is in one of the two sequences.        *)
C14_Contained ==
    /\ [](error = NoError \/ error.msg \in StepFailures)
    /\ [][pc = "await_line" /\ error' = error /\ pos <= Len(source)
          /\ IsRejected(source[pos]) =>
             /\ failed' = Append(failed, [error |-> Validate(source[pos]).error,
                                          line |-> source[pos]])
             /\ successful' = successful
             /\ pos' = pos + 1
             /\ pc' = "await_line"]_vars
    /\ [](Parsed =>
             /\ pos = Len(source0) + 1
             /\ Len(entries) + Len(failedEntries) = Len(SelectSeq(source0, NonBlank)))

C14_Witness ==
    /\ Succeeded
    /\ source0 = <<LineBadUri, LineMissing, LineGood>>
    /\ Len(failedEntries) = 2
    /\ failedEntries[1].error.msg = "URI malformed"
    /\ Len(entries) = 1

(* The document of a line after fixEscaping and gracefulParse. *)
Decoded(line) == gracefulParse(fixEscaping(line).value)

(* The validators that reject the decoded document of a line when each is  *)
(* applied to it on its own; 1 is gracefulParse.                           *)
FailingSteps(line) ==
    IF ~Decoded(line).ok THEN {1}
    ELSE {i \in 2..ChainLength : ~ChainStep(i, Decoded(line).value).ok}

Earliest(S) == CHOOSE i \in S : \A j \in S : i <= j

EarliestError(line) ==
    IF ~Decoded(line).ok THEN Decoded(line).error
    ELSE ChainStep(Earliest(FailingSteps(line)), Decoded(line).value).error

(* C15: for a source of one line, when loadEntries returns: if some       *)
(* validators reject the record, the rejected entry carries the error of    *)
(* the earliest of them in the order of the chain and nothing of the record *)
(* is accepted; if none rejects it, it is accepted.  What loadEntries       *)
(* returned is not changed afterwards, and with nothing accepted nothing is *)
(* put in an insert call or in the store.                                   *)
C15_FirstFailure ==
    /\ [](pc = "truncate" =>
             IF FailingSteps(source0[1]) # {}
             THEN /\ failedEntries = <<[error |-> EarliestError(source0[1]),
                                        line |-> source0[1]]>>
                  /\ entries = <<>>
             ELSE /\ failedEntries = <<>>
                  /\ Len(entries) = 1)
    /\ [](entries = <<>> => calls = <<>> /\ store = <<>>)
    /\ [][pc \notin {"parse", "await_line"} =>
             UNCHANGED <<source0, entries, failedEntries>>]_vars

C15_Witness ==
    /\ Parsed
    /\ Cardinality(FailingSteps(source0[1])) = 2
    /\ Len(failedEntries) = 1
    /\ failedEntries[1].error.msg = "Invalid IP address: "
    /\ pc = "done"

(* The member a field validator of the chain checks, and the words its    *)
(* message is to name that member with.                                    *)
CheckedField(i) ==
    CASE i = 3 -> "host"
      [] i = 5 -> "method"
      [] i = 7 -> "status"
      [] i = 8 -> "responseSize"
      [] OTHER -> "processTime"

NamingMessage(i) ==
    CASE i = 3 -> "Invalid IP address: "
      [] i = 5 -> "Invalid HTTP method: "
      [] i = 7 -> "Invalid HTTP status: "
      [] i = 8 -> "Invalid response size: "
      [] OTHER -> "Invalid process time: "

(* The value as the message shows it: the method in upper case. *)
ShownValue(i, raw) ==
    IF i = 5 THEN ToUpperCase(raw[CheckedField(i)].v) ELSE raw[CheckedField(i)].v

(* C16: when the validator of host, method, status, responseSize or       *)
(* processTime rejects a record for the value of its member, the message   *)
(* of the rejected entry names that member and carries that value.         *)
C16_Original ==
    Parsed /\ failedEntries # <<>> /\ Decoded(source0[1]).ok =>
        LET raw == Decoded(source0[1]).value
            i == Earliest(FailingSteps(source0[1]))
        IN  i \in {3, 5, 7, 8, 9} /\ IsString(Get(raw, CheckedField(i))) =>
                failedEntries[1].error =
                    [msg |-> NamingMessage(i), value |-> ShownValue(i, raw)]

(* The member key of an accepted entry is absent. *)
Absent(e, key) == Get(e, key) = Null

(* C17: for a source of one line that is accepted: method, user, path and *)
(* country are absent exactly when the member of the line was "-", query   *)
(* exactly when it was the empty string, userAgent exactly when it was "-" *)
(* or the empty string, and referer is never absent.                       *)
C17_Original ==
    Parsed /\ entries # <<>> =>
        LET raw == source0[1].doc.obj
            e == entries[1]
        IN  /\ Absent(e, "method") <=> Get(raw, "method") = Str(<<"-">>)
            /\ Absent(e, "user") <=> Get(raw, "user") = Str(<<"-">>)
            /\ Absent(e, "path") <=> Get(raw, "path") = Str(<<"-">>)
            /\ Absent(e, "country") <=> Get(raw, "country") = Str(<<"-">>)
            /\ Absent(e, "query") <=> Get(raw, "query") = Str(<<>>)
            /\ Absent(e, "userAgent") <=> Get(raw, "userAgent") \in {Str(<<"-">>), Str(<<>>)}
            /\ ~Absent(e, "referer")

(* The methods of the ENUM of the method column. *)
TableMethods == VALID_HTTP_METHODS \ {<<"-">>}

Unknown == Str(<<"u","n","k","n","o","w","n">>)

(* The constraints on status, method and deviceType, on an entry. *)
TypedEntry(e) ==
    /\ Get(e, "status").t = "number"
    /\ Get(e, "status") # NaN
    /\ Get(e, "status").v[1] \in VALID_HTTP_STATUSES
    /\ \/ Get(e, "method") = Null
       \/ /\ IsString(Get(e, "method"))
          /\ Get(e, "method").v \in TableMethods
    /\ Get(e, "bot") = Bool(TRUE) \/ Get(e, "userAgent") = Null =>
           Get(e, "deviceType") = Unknown

(* C20: every accepted entry has a status of the whitelist, a method that *)
(* is one of the nine of the table or absent, and the device type unknown  *)
(* when it is a bot or has no user agent; every row of an insert call and   *)
(* of the store is the row of an accepted entry, so none comes from a       *)
(* rejected line.                                                           *)
C20_Typed ==
    /\ \A i \in 1..Len(successful) : TypedEntry(successful[i])
    /\ \A i \in 1..Len(entries) : TypedEntry(entries[i])
    /\ \A row \in Range(Flatten(calls)) \cup Range(store) :
           \E i \in 1..Len(entries) : row = Row(entries[i])
    /\ Len(Flatten(calls)) <= Len(entries)
    /\ Len(store) <= Len(entries)

C20_Witness ==
    /\ store # <<>>
    /\ store[1][4] = Null
    /\ store[1][12] = Bool(TRUE)
    /\ store[1][14] = Unknown

(* A success report stating the count n was handed to the webhook. *)
SuccessReported(n) ==
    \E i \in 1..Len(sent) :
        sent[i].content.kind = "success" /\ sent[i].content.count = n

(* C18: in a run that found the source empty, whatever the toggles and     *)
(* whether it is a first run or a run after one that emptied the source:    *)
(* nothing is accepted or rejected, no failed-entries notification is made, *)
(* no insert call is issued, the source stays empty and the store is not    *)
(* changed; unless an awaited file, pool or stream operation fails, the run *)
(* ends with the success report stating 0 and exit code 0.  A further run   *)
(* starts from the same empty source and so obeys the same.                 *)
C18_EmptyRun ==
    /\ [](source0 = <<>> =>
             /\ source = <<>>
             /\ successful = <<>> /\ failed = <<>>
             /\ entries = <<>> /\ failedEntries = <<>>
             /\ ~Started("reportFailures")
             /\ "failedEntries" \notin SentKinds
             /\ calls = <<>>
             /\ pc = "done" /\ error = NoError => exitCode = 0 /\ SuccessReported(0))
    /\ [][source0 = <<>> => store' = store /\ source' = <<>>]_vars

C18_Witness ==
    /\ source0 = <<>>
    /\ Succeeded
    /\ SuccessReported(0)
    /\ store # <<>>
    /\ ~doTruncate
    /\ backupFile = <<>>

(* C19: with the writer appending during a run, the truncate step removes *)
(* no line that loadEntries has not read: when the source is emptied, the   *)
(* lines it held are the pos - 1 lines read, so that every appended line is  *)
(* either read or still in the source after the truncate.                    *)
C19_Original ==
    [][source # <<>> /\ source' = <<>> => Len(source) = pos - 1]_vars

=============================================================================
